---- MODULE Spec2Model ----
(***************************************************************************)
(* Model of the API gateway's detail request (newsDetailHandler: fan-out   *)
(* to the news service and the comments service, join on a buffered        *)
(* channel) and of the comments service's buildCommentTree.                *)
(***************************************************************************)
EXTENDS Integers, Sequences, FiniteSets, TLC

(***************************************************************************)
(* Bounds and input sets                                                   *)
(***************************************************************************)

\* the inbound requests that can be handled at the same time
Requests == {1, 2}

\* longest comment list handed to buildCommentTree
MaxComments == 3

\* most rows the comments table gets
MaxStore == 2

\* most news items that match a list query
MaxTotal == 17

\* r.Method of the inbound request
Methods == {"GET", "POST"}

\* the part of the URL path after "/news/", as a sequence of characters
Paths == { <<>>, <<"x">>, <<"7", "x">>, <<"-">>, <<"7">>, <<"-", "1", "2">> }

\* request_id query values of the inbound request ("" = absent)
InboundRequestIDs == {"", "my_custom_id", "a&b"}

\* the inbound requests to /news/...
Inbound == [method : Methods, path : Paths, request_id : InboundRequestIDs]

\* tokens generateRequestID can return
GeneratedRequestIDs == {"a1B2c3D4"}

\* what the news service can do with GET /news/{id}
NewsOutcomes == {"transport", "notfound", "status500", "badbody", "ok"}

\* what the comments service can do with GET /comments/{id}
CommentsOutcomes == {"transport", "status500", "badbody", "null", "empty", "list"}

(***************************************************************************)
(* Values                                                                  *)
(***************************************************************************)

\* a Go nil error
NoErr == "<nil>"

\* []Comment: Go tells a nil slice from an empty one (JSON null against [])
NilComments == [isNil |-> TRUE, elems |-> <<>>]
EmptyComments == [isNil |-> FALSE, elems |-> <<>>]

\* the zero value of NewsFullDetailed
ZeroNews == [ID |-> 0, Title |-> "", Comments |-> NilComments]

\* the body the news service answers with for an existing item
NewsBody(id) == [ID |-> id, Title |-> "title", Comments |-> NilComments]

\* the body the comments service answers with for an item that has comments
CommentsBody(id) ==
    [isNil |-> FALSE,
     elems |-> << [ID |-> 1, NewsID |-> id, ParentID |-> 0, Children |-> <<>>] >>]

StatusOK == 200
StatusCreated == 201
StatusBadRequest == 400
StatusNotFound == 404
StatusMethodNotAllowed == 405
StatusInternalServerError == 500

\* capacity of resultChan
ChanCap == 2

(***************************************************************************)
(* strconv.Atoi: an optional sign followed by one or more decimal digits   *)
(***************************************************************************)
Digits == {"0", "1", "2", "3", "4", "5", "6", "7", "8", "9"}

DigitVal(c) ==
    CASE c = "0" -> 0 [] c = "1" -> 1 [] c = "2" -> 2 [] c = "3" -> 3
      [] c = "4" -> 4 [] c = "5" -> 5 [] c = "6" -> 6 [] c = "7" -> 7
      [] c = "8" -> 8 [] c = "9" -> 9

RECURSIVE DigitsVal(_, _)
DigitsVal(s, acc) ==
    IF s = <<>> THEN acc ELSE DigitsVal(Tail(s), acc * 10 + DigitVal(Head(s)))

Atoi(s) ==
    LET signed == s # <<>> /\ Head(s) \in {"-", "+"}
        body == IF signed THEN Tail(s) ELSE s
    IN  IF body = <<>> \/ \E i \in 1..Len(body) : body[i] \notin Digits
        THEN [ok |-> FALSE, val |-> 0]
        ELSE [ok |-> TRUE,
              val |-> IF signed /\ Head(s) = "-"
                      THEN 0 - DigitsVal(body, 0) ELSE DigitsVal(body, 0)]

(***************************************************************************)
(* State                                                                   *)
(***************************************************************************)
VARIABLES
    pending,      \* per handler slot, the inbound requests that may arrive
    hpc,          \* handler position: "idle", "range", "done"
    newsID,       \* the parsed path id
    requestID,    \* the context's request_id
    wg,           \* sync.WaitGroup counter
    resultChan,   \* buffered channel contents
    chanClosed,   \* close(resultChan) has run
    npc,          \* news goroutine: "idle", "get", "wait", "send", "done"
    cpc,          \* comments goroutine: same positions
    wpc,          \* closer goroutine: "idle", "wait", "done"
    newsOutcome,  \* what the news service did ("none" until it returns)
    commentsOutcome,
    news,         \* handler local
    comments,     \* handler local
    hasError,     \* handler local
    resp,         \* responses written to w, in order
    calls,        \* backend calls issued, per service
    panicked,     \* a send on, or a second close of, a closed channel
    req,          \* the inbound request: method, path after /news/, request_id
    seen,         \* the types of the results the handler received, in order
    logs,         \* the access-log lines loggingMiddleware wrote
    tpc,          \* comment tree: "none", "ready", "built"
    treeVer,      \* which copy of buildCommentTree is called (1 or 2)
    treeIn,       \* the comments slice handed to buildCommentTree
    treeArr,      \* the same slice after the call
    treeOut,      \* the returned roots
    treeOut2,     \* the roots returned by a second call on the same slice
    store,        \* the rows of the comments table, in insertion order
    nextID,       \* the next value of the SERIAL id
    post,         \* the last POST /comments the gateway handled
    list,         \* the last list request (/news/latest, /news/filter) handled
    pg            \* a list request to the news service: its page and its answer

vars == <<pending, hpc, newsID, requestID, wg, resultChan, chanClosed, npc,
          cpc, wpc, newsOutcome, commentsOutcome, news, comments, hasError,
          resp, calls, panicked, req, seen, logs, tpc, treeVer, treeIn, treeArr,
          treeOut, treeOut2, store, nextID, post, list, pg>>

treeVars == <<tpc, treeVer, treeIn, treeArr, treeOut, treeOut2>>

storeVars == <<store, nextID, post>>

listVars == <<list, pg>>

gatewayVars == <<pending, hpc, newsID, requestID, wg, resultChan, chanClosed,
                 npc, cpc, wpc, newsOutcome, commentsOutcome, news, comments,
                 hasError, resp, calls, panicked, req, seen, logs>>

(***************************************************************************)
(* requestIDMiddleware                                                     *)
(***************************************************************************)
\* mutant: no token is generated when the query has no request_id
requestIDMiddlewareNoGen(inbound, generated) == inbound

requestIDMiddleware(inbound, generated) ==
    IF inbound = "" THEN generated ELSE inbound

\* main, lines 160-162: loggingMiddleware(requestIDMiddleware(mux)), outermost
\* layer first
MiddlewareChain == << "logging", "requestID", "mux" >>

LayerPos(layer) == CHOOSE i \in 1..Len(MiddlewareChain) : MiddlewareChain[i] = layer

\* r.Context().Value("request_id").(string) as a layer evaluates it: r.WithContext
\* gives the new context to the layers inside requestIDMiddleware only, a
\* layer outside it still holds the request without the value
ContextRequestID(layer, rid) ==
    IF LayerPos("requestID") < LayerPos(layer) THEN rid ELSE ""

\* loggingMiddleware, lines 103-114: the line written after next.ServeHTTP
LogLine(rid, written) ==
    [status |-> IF written = <<>> THEN StatusOK ELSE written[Len(written)].status,
     request_id |-> ContextRequestID("logging", rid)]

(***************************************************************************)
(* Query strings. A request id is a string; Pieces gives its characters,   *)
(* with a run of unreserved characters kept as one piece.                  *)
(***************************************************************************)
Pieces(str) ==
    CASE str = "" -> <<>>
      [] str = "a&b" -> << "a", "&", "b" >>
      [] OTHER -> << str >>

RECURSIVE JoinPieces(_)
JoinPieces(ps) == IF ps = <<>> THEN "" ELSE Head(ps) \o JoinPieces(Tail(ps))

\* fmt.Sprintf("...?request_id=%s", requestID): the value is written as it is
SprintfQuery(rid) == << "request_id", "=" >> \o Pieces(rid)

\* url.QueryEscape of one piece
QueryEscape(piece) ==
    CASE piece = "&" -> "%26" [] piece = "=" -> "%3D" [] OTHER -> piece

\* url.QueryUnescape of one piece
QueryUnescape(piece) ==
    CASE piece = "%26" -> "&" [] piece = "%3D" -> "=" [] OTHER -> piece

\* url.Values.Encode for the single key request_id
EncodeQuery(rid) ==
    << "request_id", "=" >> \o [i \in 1..Len(Pieces(rid)) |-> QueryEscape(Pieces(rid)[i])]

\* url.ParseQuery: the first key=value pair, the query being cut at "&"
RECURSIVE FirstPair(_)
FirstPair(q) ==
    IF q = <<>> \/ Head(q) = "&" THEN <<>> ELSE << Head(q) >> \o FirstPair(Tail(q))

RECURSIVE AfterFirstPair(_)
AfterFirstPair(q) ==
    IF q = <<>> THEN <<>>
    ELSE IF Head(q) = "&" THEN Tail(q) ELSE AfterFirstPair(Tail(q))

\* r.URL.Query().Get("request_id") in a backend's requestIDMiddleware
RECURSIVE QueryGetRequestID(_)
QueryGetRequestID(q) ==
    IF q = <<>> THEN ""
    ELSE LET pair == FirstPair(q) IN
         IF Len(pair) >= 2 /\ pair[1] = "request_id" /\ pair[2] = "="
         THEN JoinPieces([i \in 1..(Len(pair) - 2) |-> QueryUnescape(pair[i + 2])])
         ELSE QueryGetRequestID(AfterFirstPair(q))

(***************************************************************************)
(* The two fetcher goroutines: the RequestResult each sends                *)
(***************************************************************************)
\* mutant: the return after a failed Decode is missing
NewsResultNoReturn(outcome, id) ==
    IF outcome = "ok"
    THEN [type |-> "NewsFullDetailed", news |-> NewsBody(id),
          comments |-> NilComments, Err |-> NoErr]
    ELSE IF outcome = "badbody"
    THEN [type |-> "NewsFullDetailed", news |-> ZeroNews,
          comments |-> NilComments, Err |-> NoErr]
    ELSE [type |-> "nil", news |-> ZeroNews, comments |-> NilComments,
          Err |-> "news error"]

NewsResult(outcome, id) ==
    CASE outcome = "transport" ->
            [type |-> "nil", news |-> ZeroNews, comments |-> NilComments,
             Err |-> "news fetch error"]
      [] outcome = "notfound" ->
            [type |-> "nil", news |-> ZeroNews, comments |-> NilComments,
             Err |-> "news not found"]
      [] outcome = "status500" ->
            [type |-> "nil", news |-> ZeroNews, comments |-> NilComments,
             Err |-> "news service error"]
      [] outcome = "badbody" ->
            [type |-> "nil", news |-> ZeroNews, comments |-> NilComments,
             Err |-> "news decode error"]
      [] outcome = "ok" ->
            [type |-> "NewsFullDetailed", news |-> NewsBody(id),
             comments |-> NilComments, Err |-> NoErr]

\* mutant: a transport failure of the comments call is sent as an error
CommentsResultPropagate(outcome, id) ==
    IF outcome = "transport"
    THEN [type |-> "nil", news |-> ZeroNews, comments |-> NilComments,
          Err |-> "comments fetch error"]
    ELSE [type |-> "[]Comment", news |-> ZeroNews, Err |-> NoErr,
          comments |-> IF outcome = "list" THEN CommentsBody(id)
                       ELSE IF outcome = "null" THEN NilComments
                       ELSE EmptyComments]

CommentsResult(outcome, id) ==
    [type |-> "[]Comment", news |-> ZeroNews, Err |-> NoErr,
     comments |-> CASE outcome = "transport" -> EmptyComments
                    [] outcome = "status500" -> EmptyComments
                    [] outcome = "badbody" -> EmptyComments
                    [] outcome = "null" -> NilComments
                    [] outcome = "empty" -> EmptyComments
                    [] outcome = "list" -> CommentsBody(id)]

\* http.Error(w, msg, code)
ErrorResponse(code, msg) ==
    [status |-> code, text |-> msg, news |-> ZeroNews]

\* news.Comments = comments; json.NewEncoder(w).Encode(news)
MergedResponse(n, c) ==
    [status |-> StatusOK, text |-> "", news |-> [n EXCEPT !.Comments = c]]

(***************************************************************************)
(* Handler                                                                 *)
(***************************************************************************)

\* mutant: the error of strconv.Atoi is ignored
ValidateNoAtoi(method, path) ==
    IF method # "GET" THEN ErrorResponse(StatusMethodNotAllowed, "Method not allowed")
    ELSE IF Len(path) <= 0 THEN ErrorResponse(StatusBadRequest, "news id required")
    ELSE ErrorResponse(StatusOK, "")

\* lines 336-352: the checks before the fan-out
Validate(method, path) ==
    IF method # "GET" THEN ErrorResponse(StatusMethodNotAllowed, "Method not allowed")
    ELSE IF Len(path) <= 0 THEN ErrorResponse(StatusBadRequest, "news id required")
    ELSE IF ~Atoi(path).ok THEN ErrorResponse(StatusBadRequest, "bad news id")
    ELSE ErrorResponse(StatusOK, "")

\* the request arrives: middleware, validation, and the three go statements
Arrive(r) ==
    /\ hpc[r] = "idle"
    /\ \E in \in pending[r], generated \in GeneratedRequestIDs :
          LET v == Validate(in.method, in.path) IN
          /\ req' = [req EXCEPT ![r] = in]
          /\ requestID' = [requestID EXCEPT
                              ![r] = requestIDMiddleware(in.request_id, generated)]
          /\ IF v.status # StatusOK
             THEN /\ resp' = [resp EXCEPT ![r] = Append(@, v)]
                  /\ hpc' = [hpc EXCEPT ![r] = "done"]
                  /\ logs' = [logs EXCEPT ![r] = Append(@,
                         LogLine(requestIDMiddleware(in.request_id, generated), << v >>))]
                  /\ UNCHANGED <<newsID, wg, npc, cpc, wpc>>
             ELSE /\ newsID' = [newsID EXCEPT ![r] = Atoi(in.path).val]
                  /\ wg' = [wg EXCEPT ![r] = 2]
                  /\ npc' = [npc EXCEPT ![r] = "get"]
                  /\ cpc' = [cpc EXCEPT ![r] = "get"]
                  /\ wpc' = [wpc EXCEPT ![r] = "wait"]
                  /\ hpc' = [hpc EXCEPT ![r] = "range"]
                  /\ UNCHANGED <<resp, logs>>
    /\ pending' = [pending EXCEPT ![r] = {}]
    /\ UNCHANGED <<treeVars, storeVars, listVars, resultChan, chanClosed, newsOutcome, commentsOutcome, news,
                   comments, hasError, calls, panicked, seen>>

\* mutant: the news call is issued only after the comments goroutine ended
NewsGetSequential(r) ==
    /\ npc[r] = "get"
    /\ cpc[r] = "done"
    /\ npc' = [npc EXCEPT ![r] = "wait"]
    /\ calls' = [calls EXCEPT ![r].news =
                    Append(@, [id |-> newsID[r], request_id |-> requestID[r],
                               query |-> SprintfQuery(requestID[r])])]
    /\ UNCHANGED <<treeVars, storeVars, listVars, logs, pending, req, seen, hpc, newsID, requestID, wg,
                   resultChan, chanClosed, cpc, wpc, newsOutcome,
                   commentsOutcome, news, comments, hasError, resp, panicked>>

\* news goroutine: http.Get(newsURL)
NewsGet(r) ==
    /\ npc[r] = "get"
    /\ npc' = [npc EXCEPT ![r] = "wait"]
    /\ calls' = [calls EXCEPT ![r].news =
                    Append(@, [id |-> newsID[r], request_id |-> requestID[r],
                               query |-> SprintfQuery(requestID[r])])]
    /\ UNCHANGED <<treeVars, storeVars, listVars, logs, pending, req, seen, hpc, newsID, requestID, wg, resultChan, chanClosed,
                   cpc, wpc, newsOutcome, commentsOutcome, news, comments,
                   hasError, resp, panicked>>

\* news goroutine: http.Get returns, the status and the body are inspected
NewsReturn(r) ==
    /\ npc[r] = "wait"
    /\ \E o \in NewsOutcomes : newsOutcome' = [newsOutcome EXCEPT ![r] = o]
    /\ npc' = [npc EXCEPT ![r] = "send"]
    /\ UNCHANGED <<treeVars, storeVars, listVars, logs, pending, req, seen, hpc, newsID, requestID, wg, resultChan, chanClosed,
                   cpc, wpc, commentsOutcome, news, comments, hasError, resp,
                   calls, panicked>>

\* mutant: the deferred wg.Done() is missing
SendNoDone(r, result) ==
    /\ Len(resultChan[r]) < ChanCap \/ chanClosed[r]
    /\ IF chanClosed[r]
       THEN /\ panicked' = [panicked EXCEPT ![r] = TRUE]
            /\ UNCHANGED resultChan
       ELSE /\ resultChan' = [resultChan EXCEPT ![r] = Append(@, result)]
            /\ UNCHANGED panicked
    /\ UNCHANGED wg

\* mutant: resultChan is one package-level channel shared by all requests
SendShared(r, result) ==
    /\ Len(resultChan[1]) < ChanCap \/ chanClosed[1]
    /\ IF chanClosed[1]
       THEN /\ panicked' = [panicked EXCEPT ![r] = TRUE]
            /\ UNCHANGED resultChan
       ELSE /\ resultChan' = [resultChan EXCEPT ![1] = Append(@, result)]
            /\ UNCHANGED panicked
    /\ wg' = [wg EXCEPT ![r] = @ - 1]

\* a goroutine's resultChan <- result followed by its deferred wg.Done()
Send(r, result) ==
    /\ Len(resultChan[r]) < ChanCap \/ chanClosed[r]
    /\ IF chanClosed[r]
       THEN /\ panicked' = [panicked EXCEPT ![r] = TRUE]
            /\ UNCHANGED resultChan
       ELSE /\ resultChan' = [resultChan EXCEPT ![r] = Append(@, result)]
            /\ UNCHANGED panicked
    /\ wg' = [wg EXCEPT ![r] = @ - 1]

NewsSend(r) ==
    /\ npc[r] = "send"
    /\ Send(r, NewsResult(newsOutcome[r], newsID[r]))
    /\ npc' = [npc EXCEPT ![r] = "done"]
    /\ UNCHANGED <<treeVars, storeVars, listVars, logs, pending, req, seen, hpc, newsID, requestID, chanClosed, cpc, wpc,
                   newsOutcome, commentsOutcome, news, comments, hasError,
                   resp, calls>>

\* comments goroutine: http.Get(commentsURL)
CommentsGet(r) ==
    /\ cpc[r] = "get"
    /\ cpc' = [cpc EXCEPT ![r] = "wait"]
    /\ calls' = [calls EXCEPT ![r].comments =
                    Append(@, [id |-> newsID[r], request_id |-> requestID[r],
                               query |-> SprintfQuery(requestID[r])])]
    /\ UNCHANGED <<treeVars, storeVars, listVars, logs, pending, req, seen, hpc, newsID, requestID, wg, resultChan, chanClosed,
                   npc, wpc, newsOutcome, commentsOutcome, news, comments,
                   hasError, resp, panicked>>

CommentsReturn(r) ==
    /\ cpc[r] = "wait"
    /\ \E o \in CommentsOutcomes :
          commentsOutcome' = [commentsOutcome EXCEPT ![r] = o]
    /\ cpc' = [cpc EXCEPT ![r] = "send"]
    /\ UNCHANGED <<treeVars, storeVars, listVars, logs, pending, req, seen, hpc, newsID, requestID, wg, resultChan, chanClosed,
                   npc, wpc, newsOutcome, news, comments, hasError, resp,
                   calls, panicked>>

CommentsSend(r) ==
    /\ cpc[r] = "send"
    /\ Send(r, CommentsResult(commentsOutcome[r], newsID[r]))
    /\ cpc' = [cpc EXCEPT ![r] = "done"]
    /\ UNCHANGED <<treeVars, storeVars, listVars, logs, pending, req, seen, hpc, newsID, requestID, chanClosed, npc, wpc,
                   newsOutcome, commentsOutcome, news, comments, hasError,
                   resp, calls>>

\* mutant: the closer goroutine closes the channel without wg.Wait()
CloseChanNoWait(r) ==
    /\ wpc[r] = "wait"
    /\ wpc' = [wpc EXCEPT ![r] = "done"]
    /\ IF chanClosed[r]
       THEN /\ panicked' = [panicked EXCEPT ![r] = TRUE]
            /\ UNCHANGED chanClosed
       ELSE /\ chanClosed' = [chanClosed EXCEPT ![r] = TRUE]
            /\ UNCHANGED panicked
    /\ UNCHANGED <<treeVars, storeVars, listVars, logs, pending, req, seen, hpc, newsID, requestID, wg, resultChan, npc, cpc,
                   newsOutcome, commentsOutcome, news, comments, hasError,
                   resp, calls>>

\* closer goroutine: wg.Wait(); close(resultChan)
CloseChan(r) ==
    /\ wpc[r] = "wait"
    /\ wg[r] = 0
    /\ wpc' = [wpc EXCEPT ![r] = "done"]
    /\ IF chanClosed[r]
       THEN /\ panicked' = [panicked EXCEPT ![r] = TRUE]
            /\ UNCHANGED chanClosed
       ELSE /\ chanClosed' = [chanClosed EXCEPT ![r] = TRUE]
            /\ UNCHANGED panicked
    /\ UNCHANGED <<treeVars, storeVars, listVars, logs, pending, req, seen, hpc, newsID, requestID, wg, resultChan, npc, cpc,
                   newsOutcome, commentsOutcome, news, comments, hasError,
                   resp, calls>>

\* mutant: the loop is left as soon as the news item has been received
LoopBodyEager(result, n, c) ==
    IF result.Err # NoErr
    THEN [news |-> n, comments |-> c, hasError |-> TRUE, brk |-> TRUE,
          out |-> << ErrorResponse(StatusInternalServerError, result.Err) >>]
    ELSE [news |-> IF result.type = "NewsFullDetailed" THEN result.news ELSE n,
          comments |-> IF result.type = "[]Comment" THEN result.comments ELSE c,
          hasError |-> FALSE, brk |-> result.type = "NewsFullDetailed",
          out |-> <<>>]

\* mutant: hasError is not set when the error response is written
LoopBodyNoFlag(result, n, c) ==
    IF result.Err # NoErr
    THEN [news |-> n, comments |-> c, hasError |-> FALSE, brk |-> TRUE,
          out |-> << ErrorResponse(StatusInternalServerError, result.Err) >>]
    ELSE [news |-> IF result.type = "NewsFullDetailed" THEN result.news ELSE n,
          comments |-> IF result.type = "[]Comment" THEN result.comments ELSE c,
          hasError |-> FALSE, brk |-> FALSE, out |-> <<>>]

\* mutant: the news case also takes the comments from the news body
LoopBodyOverwrite(result, n, c) ==
    IF result.Err # NoErr
    THEN [news |-> n, comments |-> c, hasError |-> TRUE, brk |-> TRUE,
          out |-> << ErrorResponse(StatusInternalServerError, result.Err) >>]
    ELSE [news |-> IF result.type = "NewsFullDetailed" THEN result.news ELSE n,
          comments |-> IF result.type = "[]Comment" THEN result.comments
                       ELSE result.news.Comments,
          hasError |-> FALSE, brk |-> FALSE, out |-> <<>>]

\* the body of  for result := range resultChan  for one received result
LoopBody(result, n, c) ==
    IF result.Err # NoErr
    THEN [news |-> n, comments |-> c, hasError |-> TRUE, brk |-> TRUE,
          out |-> << ErrorResponse(StatusInternalServerError, result.Err) >>]
    ELSE [news |-> IF result.type = "NewsFullDetailed" THEN result.news ELSE n,
          comments |-> IF result.type = "[]Comment" THEN result.comments ELSE c,
          hasError |-> FALSE, brk |-> FALSE, out |-> <<>>]

\* lines 447-455: what the handler writes once the loop is left
AfterLoop(err, n, c) ==
    IF err THEN <<>> ELSE << MergedResponse(n, c) >>

\* the handler receives one result from resultChan
RecvBody(r) ==
    /\ hpc[r] = "range"
    /\ resultChan[r] # <<>>
    /\ LET result == Head(resultChan[r])
           b == LoopBody(result, news[r], comments[r])
           err == hasError[r] \/ b.hasError
       IN  /\ resultChan' = [resultChan EXCEPT ![r] = Tail(@)]
           /\ seen' = [seen EXCEPT ![r] = Append(@, result.type)]
           /\ news' = [news EXCEPT ![r] = b.news]
           /\ comments' = [comments EXCEPT ![r] = b.comments]
           /\ hasError' = [hasError EXCEPT ![r] = err]
           /\ hpc' = [hpc EXCEPT ![r] = IF b.brk THEN "done" ELSE "range"]
           /\ resp' = [resp EXCEPT ![r] =
                          @ \o b.out \o
                          (IF b.brk THEN AfterLoop(err, b.news, b.comments) ELSE <<>>)]
           /\ logs' = [logs EXCEPT ![r] =
                          IF b.brk
                          THEN Append(@, LogLine(requestID[r], b.out \o
                                     AfterLoop(err, b.news, b.comments)))
                          ELSE @]
    /\ UNCHANGED <<treeVars, storeVars, listVars, pending, req, newsID, requestID, wg, chanClosed, npc, cpc,
                   wpc, newsOutcome, commentsOutcome, calls, panicked>>

\* mutant: wg.Wait and close run in the handler itself, before the loop
RecvAfterWait(r) == chanClosed[r] /\ RecvBody(r)

Recv(r) == RecvBody(r)

\* the range loop ends on the closed, drained channel
RangeEnd(r) ==
    /\ hpc[r] = "range"
    /\ resultChan[r] = <<>>
    /\ chanClosed[r]
    /\ hpc' = [hpc EXCEPT ![r] = "done"]
    /\ resp' = [resp EXCEPT ![r] = @ \o AfterLoop(hasError[r], news[r], comments[r])]
    /\ logs' = [logs EXCEPT ![r] = Append(@,
                   LogLine(requestID[r], AfterLoop(hasError[r], news[r], comments[r])))]
    /\ UNCHANGED <<treeVars, storeVars, listVars, pending, req, newsID, requestID, wg, resultChan, chanClosed,
                   npc, cpc, wpc, newsOutcome, commentsOutcome, news, comments,
                   hasError, calls, panicked, seen>>

(***************************************************************************)
(* Comments service: buildCommentTree                                      *)
(*                                                                         *)
(* A Comment is a struct value and Children is a []Comment: appending      *)
(* comments[i] to a parent's Children, or to roots, copies the struct as   *)
(* it is at that moment, with the Children slice header it has then.       *)
(* Later appends to comments[i].Children go through commentMap to the      *)
(* element of the argument slice and are not seen by the copies.           *)
(***************************************************************************)

\* rows of the comments table for one news item; ParentID 0 is NULL, and a
\* parent is a row inserted earlier, so it has a smaller SERIAL id
CommentRows ==
    {[ID |-> i, ParentID |-> p, Children |-> <<>>] :
        i \in 1..MaxComments, p \in 0..MaxComments}

TreeInputs ==
    UNION {{c \in [1..k -> CommentRows] :
               /\ \A i, j \in 1..k : i # j => c[i].ID # c[j].ID
               /\ \A i \in 1..k : c[i].ParentID < c[i].ID} : k \in 0..MaxComments}

\* commentMap[id]: the index of the element of the slice the map points to
\* (0 if the id is not a key); a later element overwrites an earlier one
MapIndex(arr, id) ==
    IF \E j \in 1..Len(arr) : arr[j].ID = id
    THEN CHOOSE j \in 1..Len(arr) :
            /\ arr[j].ID = id
            /\ \A k \in 1..Len(arr) : arr[k].ID = id => k <= j
    ELSE 0

\* mutant: the first loop does not reset Children
ClearChildrenSkip(arr) == arr

\* mutant: the first loop resets the whole element, keeping only its id
ClearChildrenZero(arr) ==
    [i \in 1..Len(arr) |-> [ID |-> arr[i].ID, ParentID |-> 0, Children |-> <<>>]]

\* first loop: comments[i].Children = empty slice
ClearChildren(arr) ==
    [i \in 1..Len(arr) |-> [arr[i] EXCEPT !.Children = <<>>]]

\* mutant: the reply is put in front of the parent's Children
AppendChildFront(arr, i) ==
    LET p == MapIndex(arr, arr[i].ParentID) IN
    IF arr[i].ParentID # 0 /\ p # 0
    THEN [arr EXCEPT ![p].Children = << arr[i] >> \o @]
    ELSE arr

\* parent.Children = append(parent.Children, comments[i])
AppendChild(arr, i) ==
    LET p == MapIndex(arr, arr[i].ParentID) IN
    IF arr[i].ParentID # 0 /\ p # 0
    THEN [arr EXCEPT ![p].Children = Append(@, arr[i])]
    ELSE arr

\* first copy, second loop (lines 368-376)
RECURSIVE LinkAll(_, _)
LinkAll(arr, i) ==
    IF i > Len(arr) THEN arr ELSE LinkAll(AppendChild(arr, i), i + 1)

\* mutant: a record whose parent is not in commentMap is kept as a root
RECURSIVE CollectRootsAndOrphans(_, _)
CollectRootsAndOrphans(arr, i) ==
    IF i > Len(arr) THEN <<>>
    ELSE (IF arr[i].ParentID = 0 \/ MapIndex(arr, arr[i].ParentID) = 0
          THEN << arr[i] >> ELSE <<>>)
         \o CollectRootsAndOrphans(arr, i + 1)

\* first copy, third loop (lines 378-384)
RECURSIVE CollectRoots(_, _)
CollectRoots(arr, i) ==
    IF i > Len(arr) THEN <<>>
    ELSE (IF arr[i].ParentID = 0 THEN << arr[i] >> ELSE <<>>)
         \o CollectRoots(arr, i + 1)

\* first copy (lines 356-387)
buildCommentTree(cs) ==
    IF Len(cs) = 0
    THEN [roots |-> EmptyComments, arr |-> cs]
    ELSE LET linked == LinkAll(ClearChildren(cs), 1)
             roots == CollectRoots(linked, 1)
         IN  [roots |-> [isNil |-> roots = <<>>, elems |-> roots],
              arr |-> linked]

\* second copy, the single loop (lines 728-739)
RECURSIVE LinkAndCollect(_, _, _)
LinkAndCollect(arr, roots, i) ==
    IF i > Len(arr) THEN [roots |-> roots, arr |-> arr]
    ELSE IF arr[i].ParentID = 0
         THEN LinkAndCollect(arr, Append(roots, arr[i]), i + 1)
         ELSE LinkAndCollect(AppendChild(arr, i), roots, i + 1)

\* second copy (lines 717-742)
buildCommentTreeV2(cs) ==
    LET res == LinkAndCollect(ClearChildren(cs), <<>>, 1)
    IN  [roots |-> [isNil |-> res.roots = <<>>, elems |-> res.roots],
         arr |-> res.arr]

\* getCommentsByNewsHandler: commentTree := buildCommentTree(comments)
BuildTree ==
    /\ tpc = "ready"
    /\ LET res == IF treeVer = 1 THEN buildCommentTree(treeIn)
                  ELSE buildCommentTreeV2(treeIn)
       IN  /\ treeOut' = res.roots
           /\ treeArr' = res.arr
    /\ tpc' = "built"
    /\ UNCHANGED <<gatewayVars, storeVars, listVars, treeVer, treeIn, treeOut2>>

\* buildCommentTree is called once more on the same slice
BuildAgain ==
    /\ tpc = "built"
    /\ LET res == IF treeVer = 1 THEN buildCommentTree(treeArr)
                  ELSE buildCommentTreeV2(treeArr)
       IN  /\ treeOut2' = res.roots
           /\ treeArr' = res.arr
    /\ tpc' = "rebuilt"
    /\ UNCHANGED <<gatewayVars, storeVars, listVars, treeVer, treeIn, treeOut>>

(***************************************************************************)
(* POST /comments: the gateway's addCommentHandler in front of the         *)
(* comments service's createCommentHandler and its comments table          *)
(***************************************************************************)

\* the characters strings.TrimSpace removes
Whitespace == {" ", "\t"}

\* comment texts, as sequences of characters
Texts == { <<>>, << " " >>, << "o", "k" >>, << " ", "o", "k" >> }

\* parent_id of a CommentRequest: a *int, nil when the key is absent
NilParent == [nil |-> TRUE, id |-> 0]
ParentRefs == {NilParent} \cup {[nil |-> FALSE, id |-> i] : i \in {1, 2, 9}}

\* request bodies: one that is not JSON, and every decodable CommentRequest
\* (news_id is 0 when the key is absent)
PostBodies ==
    {[valid |-> FALSE, news_id |-> 0, parent_id |-> NilParent, text |-> <<>>]}
    \cup [valid : {TRUE}, news_id : {-1, 0, 1, 2}, parent_id : ParentRefs,
          text : Texts]

\* what can go wrong between the gateway and the comments service
GatewayFaults == {"none", "transport", "badbody"}

\* which database statement of createCommentHandler fails, if any
DbFaults == {"none", "lookup", "insert", "fetch"}

RECURSIVE TrimLeft(_)
TrimLeft(t) ==
    IF t # <<>> /\ Head(t) \in Whitespace THEN TrimLeft(Tail(t)) ELSE t

RECURSIVE TrimRight(_)
TrimRight(t) ==
    IF t # <<>> /\ t[Len(t)] \in Whitespace
    THEN TrimRight(SubSeq(t, 1, Len(t) - 1)) ELSE t

\* strings.TrimSpace
TrimSpace(t) == TrimRight(TrimLeft(t))

\* mutant: the parent lookup always finds a row
RowExistsAlways(st, id) == TRUE

\* SELECT EXISTS(SELECT 1 FROM comments WHERE id = $1)
RowExists(st, id) == \E i \in 1..Len(st) : st[i].ID = id

\* the answer of a handler that changed nothing
Rejected(st, nid, code) ==
    [status |-> code, store |-> st, nextID |-> nid, created |-> FALSE,
     comment |-> [ID |-> 0, NewsID |-> 0, ParentID |-> 0, Text |-> <<>>]]

\* mutant: the row is stored with the trimmed text
NewRowTrimmed(nid, body) ==
    [ID |-> nid, NewsID |-> body.news_id,
     ParentID |-> IF body.parent_id.nil THEN 0 ELSE body.parent_id.id,
     Text |-> TrimSpace(body.text)]

\* INSERT INTO comments (news_id, parent_id, text, ...) RETURNING id
NewRow(nid, body) ==
    [ID |-> nid, NewsID |-> body.news_id,
     ParentID |-> IF body.parent_id.nil THEN 0 ELSE body.parent_id.id,
     Text |-> body.text]

\* comments service, createCommentHandler (lines 174-234 and 557-617)
createCommentHandler(st, nid, body, dbFault) ==
    IF ~body.valid THEN Rejected(st, nid, StatusBadRequest)
    ELSE IF body.news_id <= 0 THEN Rejected(st, nid, StatusBadRequest)
    ELSE IF TrimSpace(body.text) = <<>> THEN Rejected(st, nid, StatusBadRequest)
    ELSE IF ~body.parent_id.nil
            /\ (dbFault = "lookup" \/ ~RowExists(st, body.parent_id.id))
    THEN Rejected(st, nid, StatusBadRequest)
    ELSE IF dbFault = "insert" THEN Rejected(st, nid, StatusInternalServerError)
    ELSE LET row == NewRow(nid, body)
         IN  IF dbFault = "fetch"
             THEN [Rejected(Append(st, row), nid + 1, StatusInternalServerError)
                      EXCEPT !.created = TRUE]
             ELSE [status |-> StatusCreated, store |-> Append(st, row),
                   nextID |-> nid + 1, created |-> TRUE, comment |-> row]

\* the answer of the gateway when it made no backend call
RejectedByGateway(st, nid, code) ==
    [status |-> code, store |-> st, nextID |-> nid, created |-> FALSE,
     comment |-> [ID |-> 0, NewsID |-> 0, ParentID |-> 0, Text |-> <<>>],
     backendCalls |-> <<>>]

\* gateway, addCommentHandler (lines 458-515)
addCommentHandler(st, nid, body, gwFault, dbFault) ==
    IF ~body.valid THEN RejectedByGateway(st, nid, StatusBadRequest)
    ELSE IF body.news_id <= 0 THEN RejectedByGateway(st, nid, StatusBadRequest)
    ELSE IF body.text = <<>> THEN RejectedByGateway(st, nid, StatusBadRequest)
    ELSE LET sent == [valid |-> TRUE, news_id |-> body.news_id,
                      parent_id |-> body.parent_id, text |-> body.text]
         IN  IF gwFault = "transport"
             THEN [RejectedByGateway(st, nid, StatusInternalServerError)
                      EXCEPT !.backendCalls = << sent >>]
             ELSE LET ans == createCommentHandler(st, nid, sent, dbFault) IN
                  IF ans.status # StatusCreated
                  THEN [status |-> ans.status, store |-> ans.store,
                        nextID |-> ans.nextID, created |-> ans.created,
                        comment |-> Rejected(st, nid, 0).comment,
                        backendCalls |-> << sent >>]
                  ELSE IF gwFault = "badbody"
                  THEN [status |-> StatusInternalServerError,
                        store |-> ans.store, nextID |-> ans.nextID,
                        created |-> ans.created,
                        comment |-> Rejected(st, nid, 0).comment,
                        backendCalls |-> << sent >>]
                  ELSE [status |-> StatusCreated, store |-> ans.store,
                        nextID |-> ans.nextID, created |-> ans.created,
                        comment |-> ans.comment, backendCalls |-> << sent >>]

\* one POST /comments to the gateway, handled to the end
AddComment ==
    /\ Len(store) < MaxStore
    /\ \E body \in PostBodies, gwFault \in GatewayFaults, dbFault \in DbFaults :
          \* at most one thing goes wrong per request
          /\ gwFault = "none" \/ dbFault = "none"
          /\ LET ans == addCommentHandler(store, nextID, body, gwFault, dbFault) IN
             /\ store' = ans.store
             /\ nextID' = ans.nextID
             /\ post' = [handled |-> TRUE, body |-> body, gwFault |-> gwFault,
                         dbFault |-> dbFault, status |-> ans.status,
                         created |-> ans.created, comment |-> ans.comment,
                         backendCalls |-> ans.backendCalls]
    /\ UNCHANGED <<gatewayVars, treeVars, listVars>>

(***************************************************************************)
(* GET /news/latest and GET /news/filter: the gateway's passthroughs        *)
(***************************************************************************)

\* the filter parameters a caller may send
ParamKeys == {"page", "q", "s", "date_from", "date_to", "sort_by"}

\* the parameters each handler copies (params.Add)
EndpointKeys(endpoint) ==
    IF endpoint = "latest" THEN {"page", "s"} ELSE ParamKeys

Endpoints == {"latest", "filter"}

\* url.Values.Encode writes the keys in sorted order
EncodeOrder ==
    << "date_from", "date_to", "page", "q", "request_id", "s", "sort_by" >>

\* inbound values of one parameter; "" is an absent or empty parameter
ParamValues == {"", "2", "a&b"}

\* answers of the news service to a list call
Envelopes ==
    { [news |-> <<>>,
       pagination |-> [page |-> 1, total_pages |-> 0, per_page |-> 15,
                       total |-> 0]],
      [news |-> << [ID |-> 31, Title |-> "title", Content |-> "content"] >>,
       pagination |-> [page |-> 3, total_pages |-> 3, per_page |-> 15,
                       total |-> 31]] }

NoEnvelope ==
    [news |-> <<>>,
     pagination |-> [page |-> 0, total_pages |-> 0, per_page |-> 0, total |-> 0]]

ListOutcomes ==
    [kind : {"transport", "status500", "badbody"}, body : {NoEnvelope}]
    \cup [kind : {"ok"}, body : Envelopes]

\* the url.Values the handler builds: the non-empty parameters it knows
\* and the request id
ForwardedParams(endpoint, inbound, rid) ==
    [k \in {x \in EndpointKeys(endpoint) : inbound[x] # ""} \cup {"request_id"}
        |-> IF k = "request_id" THEN rid ELSE inbound[k]]

\* mutant: the values are written into the query as they are
EscapePiecesNone(str) == Pieces(str)

\* url.QueryEscape of a value
EscapePieces(str) ==
    [i \in 1..Len(Pieces(str)) |-> QueryEscape(Pieces(str)[i])]

RECURSIVE EncodeFrom(_, _)
EncodeFrom(vals, i) ==
    IF i > Len(EncodeOrder) THEN <<>>
    ELSE LET k == EncodeOrder[i]
             rest == EncodeFrom(vals, i + 1)
         IN  IF k \in DOMAIN vals
             THEN << k, "=" >> \o EscapePieces(vals[k])
                     \o (IF rest = <<>> THEN <<>> ELSE << "&" >> \o rest)
             ELSE rest

\* params.Encode()
Encode(vals) == EncodeFrom(vals, 1)

\* r.URL.Query(): the keys of the parsed query
RECURSIVE QueryKeys(_)
QueryKeys(q) ==
    IF q = <<>> THEN {}
    ELSE LET pair == FirstPair(q) IN
         (IF pair = <<>> THEN {} ELSE {pair[1]})
            \cup QueryKeys(AfterFirstPair(q))

\* r.URL.Query().Get(key) in the news service
RECURSIVE QueryGet(_, _)
QueryGet(q, key) ==
    IF q = <<>> THEN ""
    ELSE LET pair == FirstPair(q) IN
         IF Len(pair) >= 2 /\ pair[1] = key /\ pair[2] = "="
         THEN JoinPieces([i \in 1..(Len(pair) - 2) |-> QueryUnescape(pair[i + 2])])
         ELSE QueryGet(AfterFirstPair(q), key)

\* json Decode into the gateway's NewsListResponse: a NewsShortDetailed has
\* no content field, the pagination is kept
DecodeNewsList(body) ==
    [news |-> [i \in 1..Len(body.news) |->
                 [ID |-> body.news[i].ID, Title |-> body.news[i].Title]],
     pagination |-> body.pagination]

\* latestNewsHandler and filterNewsHandler of the gateway
listNewsHandler(endpoint, method, inbound, rid, outcome) ==
    IF method # "GET"
    THEN [status |-> StatusMethodNotAllowed, calls |-> <<>>,
          body |-> DecodeNewsList(NoEnvelope)]
    ELSE LET call == [endpoint |-> endpoint,
                      query |-> Encode(ForwardedParams(endpoint, inbound, rid))]
         IN  [status |-> CASE outcome.kind = "ok" -> StatusOK
                           [] outcome.kind = "status500" -> StatusInternalServerError
                           [] outcome.kind = "transport" -> StatusInternalServerError
                           [] outcome.kind = "badbody" -> StatusInternalServerError,
              calls |-> << call >>,
              body |-> IF outcome.kind = "ok" THEN DecodeNewsList(outcome.body)
                       ELSE DecodeNewsList(NoEnvelope)]

\* one list request to the gateway, handled to the end
ListNews ==
    /\ ~list.handled
    /\ \E endpoint \in Endpoints, method \in {"GET", "POST"},
          inbound \in [ParamKeys -> ParamValues],
          inRid \in InboundRequestIDs, generated \in GeneratedRequestIDs,
          outcome \in ListOutcomes :
          LET rid == requestIDMiddleware(inRid, generated)
              ans == listNewsHandler(endpoint, method, inbound, rid, outcome)
          IN  list' = [handled |-> TRUE, endpoint |-> endpoint,
                       method |-> method, inbound |-> inbound,
                       requestID |-> rid, outcome |-> outcome,
                       status |-> ans.status, calls |-> ans.calls,
                       body |-> ans.body]
    /\ UNCHANGED <<gatewayVars, treeVars, storeVars, pg>>

(***************************************************************************)
(* News service: the page of a list request                                *)
(*                                                                         *)
(* Go's int has 64 bits here. A Word is such an int as four 16-bit limbs,  *)
(* least significant first, in two's complement.                           *)
(***************************************************************************)

PER_PAGE == 15

\* the base of a limb, 2^16
Limb == 65536

Zero64 == << 0, 0, 0, 0 >>
One64 == << 1, 0, 0, 0 >>

\* x * k + d for small k and d: the low 64 bits and what is carried out
MulAdd64(x, k, d) ==
    LET t1 == x[1] * k + d
        t2 == x[2] * k + (t1 \div Limb)
        t3 == x[3] * k + (t2 \div Limb)
        t4 == x[4] * k + (t3 \div Limb)
    IN  [val |-> << t1 % Limb, t2 % Limb, t3 % Limb, t4 % Limb >>,
         carry |-> t4 \div Limb]

\* the sign bit of a Word
IsNeg64(x) == x[4] >= Limb \div 2

\* x - 1 for a Word other than zero
Sub1(x) ==
    IF x[1] > 0 THEN << x[1] - 1, x[2], x[3], x[4] >>
    ELSE IF x[2] > 0 THEN << Limb - 1, x[2] - 1, x[3], x[4] >>
    ELSE IF x[3] > 0 THEN << Limb - 1, Limb - 1, x[3] - 1, x[4] >>
    ELSE << Limb - 1, Limb - 1, Limb - 1, x[4] - 1 >>

\* a Word that is a small non-negative number, as that number
IsSmall64(x) == x[2] = 0 /\ x[3] = 0 /\ x[4] = 0

\* the decimal digits of a magnitude, read left to right
RECURSIVE ParseDigits(_, _)
ParseDigits(ds, acc) ==
    IF ds = <<>> THEN [ok |-> TRUE, val |-> acc]
    ELSE LET r == MulAdd64(acc, 10, DigitVal(Head(ds))) IN
         IF r.carry > 0 THEN [ok |-> FALSE, val |-> Zero64]
         ELSE ParseDigits(Tail(ds), r.val)

\* strconv.Atoi on a 64-bit int: the sign, the magnitude, and whether the
\* string is an integer that an int can hold
Atoi64(str) ==
    LET signed == str # <<>> /\ Head(str) \in {"-", "+"}
        neg == signed /\ Head(str) = "-"
        body == IF signed THEN Tail(str) ELSE str
    IN  IF body = <<>> \/ \E i \in 1..Len(body) : body[i] \notin Digits
        THEN [ok |-> FALSE, neg |-> FALSE, mag |-> Zero64]
        ELSE LET m == ParseDigits(body, Zero64) IN
             IF ~m.ok \/ (IsNeg64(m.val)
                             /\ ~(neg /\ m.val = << 0, 0, 0, Limb \div 2 >>))
             THEN [ok |-> FALSE, neg |-> FALSE, mag |-> Zero64]
             ELSE [ok |-> TRUE, neg |-> neg, mag |-> m.val]

\* lines 325-333: page := 1; if pageParam != "" { page, err = Atoi; if err
\* != nil || page < 1 { page = 1 } }
PageOf(param) ==
    LET a == Atoi64(param) IN
    IF param = <<>> \/ ~a.ok \/ a.neg \/ a.mag = Zero64 THEN One64 ELSE a.mag

\* offset := (page - 1) * PER_PAGE, in 64-bit arithmetic
OffsetOf(page) == MulAdd64(Sub1(page), PER_PAGE, 0).val

\* totalPages := int(math.Ceil(float64(total) / float64(PER_PAGE)))
TotalPages(total) ==
    IF total % PER_PAGE = 0 THEN total \div PER_PAGE
    ELSE total \div PER_PAGE + 1

\* getLatestNews / filterNews: SELECT COUNT(*), then SELECT ... LIMIT $n
\* OFFSET $m over the ordered matching items 1..total; the database
\* rejects a negative OFFSET
SelectPage(total, limit, offset) ==
    IF IsNeg64(offset) THEN [err |-> TRUE, news |-> <<>>, total |-> 0]
    ELSE IF ~IsSmall64(offset) \/ offset[1] >= total
    THEN [err |-> FALSE, news |-> <<>>, total |-> total]
    ELSE LET n == IF total - offset[1] < limit THEN total - offset[1]
                  ELSE limit
         IN  [err |-> FALSE, news |-> [i \in 1..n |-> offset[1] + i],
              total |-> total]

\* news service, latestNewsHandler and filterNewsHandler
newsListHandler(param, total) ==
    LET page == PageOf(param)
        got == SelectPage(total, PER_PAGE, OffsetOf(page))
    IN  IF got.err
        THEN [status |-> StatusInternalServerError, news |-> <<>>,
              pagination |-> [page |-> Zero64, total_pages |-> 0,
                              per_page |-> 0, total |-> 0]]
        ELSE [status |-> StatusOK, news |-> got.news,
              pagination |-> [page |-> page,
                              total_pages |-> TotalPages(got.total),
                              per_page |-> PER_PAGE, total |-> got.total]]

\* the page parameters tried: absent, not integers, below 1, small pages,
\* and pages near the ends of the int range
PageParams ==
    { <<>>, << "x" >>, << "1", ".", "5" >>, << "0" >>, << "-", "1" >>,
      << "1" >>, << "+", "2" >>, << "3" >>,
      << "4","6","1","1","6","8","6","0","1","8","4","2","7","3","8","7","9","0","4" >>,
      << "8","6","0","8","4","8","0","5","6","7","7","3","1","1","2","4","0","8","9" >>,
      << "9","2","2","3","3","7","2","0","3","6","8","5","4","7","7","5","8","0","7" >>,
      << "9","2","2","3","3","7","2","0","3","6","8","5","4","7","7","5","8","0","8" >>,
      << "9","9","9","9","9","9","9","9","9","9","9","9","9","9","9","9","9","9","9","9" >> }

NoPageAnswer ==
    [status |-> 0, news |-> <<>>,
     pagination |-> [page |-> Zero64, total_pages |-> 0, per_page |-> 0,
                     total |-> 0]]

\* the news service answers one list request
ServePage ==
    /\ pg.pc = "ready"
    /\ pg' = [pg EXCEPT !.pc = "done",
                        !.resp = newsListHandler(pg.param, pg.total)]
    /\ UNCHANGED <<gatewayVars, treeVars, storeVars, list>>

(***************************************************************************)
(* Specifications                                                          *)
(***************************************************************************)
InitRequests(P) ==
    /\ pending = P
    /\ hpc = [r \in Requests |-> "idle"]
    /\ newsID = [r \in Requests |-> 0]
    /\ requestID = [r \in Requests |-> ""]
    /\ wg = [r \in Requests |-> 0]
    /\ resultChan = [r \in Requests |-> <<>>]
    /\ chanClosed = [r \in Requests |-> FALSE]
    /\ npc = [r \in Requests |-> "idle"]
    /\ cpc = [r \in Requests |-> "idle"]
    /\ wpc = [r \in Requests |-> "idle"]
    /\ newsOutcome = [r \in Requests |-> "none"]
    /\ commentsOutcome = [r \in Requests |-> "none"]
    /\ news = [r \in Requests |-> ZeroNews]
    /\ comments = [r \in Requests |-> NilComments]
    /\ hasError = [r \in Requests |-> FALSE]
    /\ resp = [r \in Requests |-> <<>>]
    /\ calls = [r \in Requests |-> [news |-> <<>>, comments |-> <<>>]]
    /\ panicked = [r \in Requests |-> FALSE]
    /\ req = [r \in Requests |-> [method |-> "", path |-> <<>>, request_id |-> ""]]
    /\ seen = [r \in Requests |-> <<>>]
    /\ logs = [r \in Requests |-> <<>>]

\* no list request has been handled
InitList ==
    list = [handled |-> FALSE, endpoint |-> "latest", method |-> "",
            inbound |-> [k \in ParamKeys |-> ""], requestID |-> "",
            outcome |-> [kind |-> "transport", body |-> NoEnvelope],
            status |-> 0, calls |-> <<>>, body |-> DecodeNewsList(NoEnvelope)]

\* no list request is being served by the news service
InitNoPage ==
    pg = [pc |-> "idle", endpoint |-> "latest", param |-> <<>>, total |-> 0,
          resp |-> NoPageAnswer]

\* the comments table is empty and no POST /comments has been handled
InitStore ==
    /\ store = <<>>
    /\ nextID = 1
    /\ post = [handled |-> FALSE,
               body |-> [valid |-> FALSE, news_id |-> 0, parent_id |-> NilParent,
                         text |-> <<>>],
               gwFault |-> "none", dbFault |-> "none", status |-> 0,
               created |-> FALSE,
               comment |-> [ID |-> 0, NewsID |-> 0, ParentID |-> 0, Text |-> <<>>],
               backendCalls |-> <<>>]

InitNoTree ==
    /\ tpc = "none"
    /\ treeVer = 1
    /\ treeIn = <<>>
    /\ treeArr = <<>>
    /\ treeOut = NilComments
    /\ treeOut2 = NilComments

\* one request, any inbound request
Init ==
    /\ InitRequests([r \in Requests |-> IF r = 1 THEN Inbound ELSE {}])
    /\ InitNoTree
    /\ InitStore
    /\ InitList
    /\ InitNoPage

Next ==
    \E r \in Requests :
        \/ Arrive(r)
        \/ NewsGet(r)
        \/ NewsReturn(r)
        \/ NewsSend(r)
        \/ CommentsGet(r)
        \/ CommentsReturn(r)
        \/ CommentsSend(r)
        \/ CloseChan(r)
        \/ Recv(r)
        \/ RangeEnd(r)

Spec == Init /\ [][Next]_vars

\* the Go scheduler runs every runnable goroutine; a backend need not answer
Fairness ==
    \A r \in Requests :
        /\ WF_vars(NewsGet(r)) /\ WF_vars(NewsSend(r))
        /\ WF_vars(CommentsGet(r)) /\ WF_vars(CommentsSend(r))
        /\ WF_vars(CloseChan(r)) /\ WF_vars(Recv(r)) /\ WF_vars(RangeEnd(r))

FairSpec == Init /\ [][Next]_vars /\ Fairness

\* both backends answer every call, after whatever delay
BackendsAnswer ==
    \A r \in Requests : WF_vars(NewsReturn(r)) /\ WF_vars(CommentsReturn(r))

FairAnswerSpec == Init /\ [][Next]_vars /\ Fairness /\ BackendsAnswer

\* two concurrent detail requests with valid ids, for the same item or not
InitPair ==
    /\ InitNoTree
    /\ InitStore
    /\ InitList
    /\ InitNoPage
    /\ InitRequests([r \in Requests |->
        IF r = 1
        THEN {[method |-> "GET", path |-> <<"7">>, request_id |-> "my_custom_id"]}
        ELSE {[method |-> "GET", path |-> p, request_id |-> ""] :
                 p \in {<<"7">>, <<"-", "1", "2">>}}])

SpecPair == InitPair /\ [][Next]_vars

\* buildCommentTree applied to every list of rows of one news item
InitTree ==
    /\ InitStore
    /\ InitList
    /\ InitNoPage
    /\ InitRequests([r \in Requests |-> {}])
    /\ tpc = "ready"
    /\ treeVer \in {1, 2}
    /\ treeIn \in TreeInputs
    /\ treeArr = treeIn
    /\ treeOut = NilComments
    /\ treeOut2 = NilComments

NextTree == BuildTree \/ BuildAgain

SpecTree == InitTree /\ [][NextTree]_vars

\* a sequence of POST /comments requests through the gateway
InitComments ==
    /\ InitRequests([r \in Requests |-> {}])
    /\ InitNoTree
    /\ InitStore
    /\ InitList
    /\ InitNoPage

NextComments == AddComment

SpecComments == InitComments /\ [][NextComments]_vars

\* one list request through the gateway
InitLists ==
    /\ InitRequests([r \in Requests |-> {}])
    /\ InitNoTree
    /\ InitStore
    /\ InitList
    /\ InitNoPage

NextLists == ListNews

SpecLists == InitLists /\ [][NextLists]_vars

\* one list request to the news service, for every page parameter and
\* every number of matching items
InitPages ==
    /\ InitRequests([r \in Requests |-> {}])
    /\ InitNoTree
    /\ InitStore
    /\ InitList
    /\ pg \in [pc : {"ready"}, endpoint : Endpoints, param : PageParams,
                total : 0..MaxTotal, resp : {NoPageAnswer}]

NextPages == ServePage

SpecPages == InitPages /\ [][NextPages]_vars

(***************************************************************************)
(* Properties of the detail request                                        *)
(***************************************************************************)

\* the request passed the id validation and the fan-out happened
Valid(r) == npc[r] # "idle"

CommentsFailed(r) == commentsOutcome[r] \in {"transport", "status500", "badbody"}

NewsFailedOther(r) == newsOutcome[r] \in {"transport", "status500", "badbody"}

\* C1: when the content-item call succeeds and the comments call fails in
\* any way, no 5xx is ever written and the response is 200 with the content
\* item and an empty comment array, whichever result arrives first.
C1_CommentFailureAbsorbed ==
    \A r \in Requests :
        (newsOutcome[r] = "ok" /\ CommentsFailed(r)) =>
            /\ \A i \in 1..Len(resp[r]) : resp[r][i].status < 500
            /\ hpc[r] = "done" =>
                  resp[r] = << [status |-> StatusOK, text |-> "",
                                news |-> [NewsBody(newsID[r]) EXCEPT
                                             !.Comments = EmptyComments]] >>

C1_Witness ==
    \E r \in Requests :
        /\ hpc[r] = "done" /\ newsOutcome[r] = "ok"
        /\ commentsOutcome[r] = "transport"
        /\ seen[r] = << "[]Comment", "NewsFullDetailed" >>
        /\ Len(resp[r]) = 1 /\ resp[r][1].status = StatusOK

\* C2: when the content-item backend reports NotFound (404) the gateway's
\* response status is 404, whatever the comments call does.
C2_NotFoundIs404 ==
    \A r \in Requests :
        (newsOutcome[r] = "notfound" /\ hpc[r] = "done") =>
            /\ Len(resp[r]) = 1
            /\ resp[r][1].status = StatusNotFound

\* C3: when the content-item call fails with anything other than NotFound
\* the request ends with a 500 error response and never with a 200,
\* whatever the comments call does and whichever result arrives first.
C3_ContentFailureIs500 ==
    \A r \in Requests :
        NewsFailedOther(r) =>
            /\ \A i \in 1..Len(resp[r]) : resp[r][i].status # StatusOK
            /\ hpc[r] = "done" =>
                  /\ Len(resp[r]) = 1
                  /\ resp[r][1].status = StatusInternalServerError

C3_Witness ==
    \E r \in Requests :
        /\ hpc[r] = "done" /\ newsOutcome[r] = "status500"
        /\ commentsOutcome[r] = "list"
        /\ seen[r] = << "[]Comment", "nil" >>
        /\ resp[r][1].status = StatusInternalServerError

C5_NotFoundAnswered ==
    \A r \in Requests : (newsOutcome[r] = "notfound") ~> (resp[r] # <<>>)

C5_Witness ==
    \E r \in Requests :
        /\ newsOutcome[r] = "notfound"
        /\ cpc[r] \in {"get", "wait"}
        /\ hpc[r] = "done" /\ Len(resp[r]) = 1

\* C6: a detail request that passes id validation writes exactly one
\* response: never two, never an error and a merged body, and one once the
\* handler has returned.
C6_ExactlyOneResponse ==
    \A r \in Requests :
        Valid(r) =>
            /\ Len(resp[r]) <= 1
            /\ hpc[r] = "done" => Len(resp[r]) = 1

C6_Witness ==
    \E r \in Requests :
        /\ Valid(r) /\ hpc[r] = "done" /\ hasError[r]
        /\ npc[r] = "done" /\ cpc[r] = "done" /\ wpc[r] = "done"
        /\ Len(resp[r]) = 1

\* C7: the response is a function of the two backend outcomes alone: two
\* requests for the same item with the same pair of outcomes get the same
\* status and body, in whatever order their results arrived.
C7_OrderIndependent ==
    \A r1, r2 \in Requests :
        ( /\ hpc[r1] = "done" /\ hpc[r2] = "done"
          /\ Valid(r1) /\ Valid(r2)
          /\ newsID[r1] = newsID[r2]
          /\ newsOutcome[r1] # "none" /\ newsOutcome[r1] = newsOutcome[r2]
          /\ commentsOutcome[r1] # "none"
          /\ commentsOutcome[r1] = commentsOutcome[r2] )
        => resp[r1] = resp[r2]

C7_Witness ==
    \E r1, r2 \in Requests :
        /\ hpc[r1] = "done" /\ hpc[r2] = "done"
        /\ newsID[r1] = newsID[r2]
        /\ newsOutcome[r1] = "ok" /\ newsOutcome[r2] = "ok"
        /\ commentsOutcome[r1] = "list" /\ commentsOutcome[r2] = "list"
        /\ seen[r1] = << "NewsFullDetailed", "[]Comment" >>
        /\ seen[r2] = << "[]Comment", "NewsFullDetailed" >>
        /\ resp[r1] = resp[r2] /\ Len(resp[r1]) = 1

\* an optional sign followed by at least one character, all decimal digits
IsIntegerSyntax(p) ==
    /\ Len(p) >= 1
    /\ LET first == IF p[1] \in {"+", "-"} THEN 2 ELSE 1
       IN  /\ first <= Len(p)
           /\ \A i \in first..Len(p) : p[i] \in Digits

\* C8: a GET /news/{id} whose id is missing or is not an integer ends at
\* once with 400 and no call to either backend.
C8_InvalidIdIs400 ==
    \A r \in Requests :
        (hpc[r] # "idle" /\ req[r].method = "GET"
            /\ ~IsIntegerSyntax(req[r].path)) =>
            /\ hpc[r] = "done"
            /\ Len(resp[r]) = 1 /\ resp[r][1].status = StatusBadRequest
            /\ calls[r].news = <<>> /\ calls[r].comments = <<>>
            /\ npc[r] = "idle" /\ cpc[r] = "idle" /\ wpc[r] = "idle"

C8_Witness ==
    \E r \in Requests :
        /\ req[r].method = "GET" /\ req[r].path = << "7", "x" >>
        /\ hpc[r] = "done"
        /\ resp[r][1].status = StatusBadRequest
        /\ calls[r].news = <<>> /\ calls[r].comments = <<>>

\* C9: a valid detail request issues exactly one content-item call and one
\* comments call, both for the request's id, neither retried, and each
\* goroutine can take its next step whatever the position of the other.
C9_OneCallEachIndependent ==
    \A r \in Requests :
        Valid(r) =>
            /\ Len(calls[r].news) = (IF npc[r] = "get" THEN 0 ELSE 1)
            /\ Len(calls[r].comments) = (IF cpc[r] = "get" THEN 0 ELSE 1)
            /\ \A i \in 1..Len(calls[r].news) : calls[r].news[i].id = newsID[r]
            /\ \A i \in 1..Len(calls[r].comments) :
                  calls[r].comments[i].id = newsID[r]
            /\ npc[r] = "get" => ENABLED NewsGet(r)
            /\ npc[r] = "wait" => ENABLED NewsReturn(r)
            /\ cpc[r] = "get" => ENABLED CommentsGet(r)
            /\ cpc[r] = "wait" => ENABLED CommentsReturn(r)

C9_Witness ==
    \E r1, r2 \in Requests :
        /\ npc[r1] = "done" /\ cpc[r1] = "get"
        /\ cpc[r2] = "done" /\ npc[r2] = "get"
        /\ Len(calls[r1].news) = 1 /\ Len(calls[r2].comments) = 1

(***************************************************************************)
(* Properties of buildCommentTree                                          *)
(***************************************************************************)

\* how many nodes of a forest, over all nesting depths, have the given id
RECURSIVE CountInForest(_, _)
CountInForest(forest, id) ==
    IF forest = <<>> THEN 0
    ELSE (IF Head(forest).ID = id THEN 1 ELSE 0)
         + CountInForest(Head(forest).Children, id)
         + CountInForest(Tail(forest), id)

HasId(cs, id) == \E j \in 1..Len(cs) : cs[j].ID = id

\* the list is ordered oldest first: ids ascend, so a parent precedes its replies
OldestFirst(cs) == \A i, j \in 1..Len(cs) : i < j => cs[i].ID < cs[j].ID

\* no record of the list is an orphan
NoOrphans(cs) ==
    \A i \in 1..Len(cs) : cs[i].ParentID = 0 \/ HasId(cs, cs[i].ParentID)

\* C10: the returned forest contains, counted over all depths, exactly once
\* every input record whose parent id is null or is the id of an input
\* record. Stated here for the lists the comments service produces when no
\* record is an orphan: ordered oldest first, every non-null parent present.
C10_AttachedRecordsOnce ==
    (tpc = "built" /\ OldestFirst(treeIn) /\ NoOrphans(treeIn)) =>
        \A i \in 1..Len(treeIn) :
            (treeIn[i].ParentID = 0 \/ HasId(treeIn, treeIn[i].ParentID)) =>
                CountInForest(treeOut.elems, treeIn[i].ID) = 1

\* the position of the record with the given id in the input list
PosIn(cs, id) == CHOOSE j \in 1..Len(cs) : cs[j].ID = id

IsOrphan(cs, i) == cs[i].ParentID # 0 /\ ~HasId(cs, cs[i].ParentID)

\* C11: no record whose non-null parent id is absent from the input appears
\* anywhere in the returned forest, and the call still returns a forest.
C11_OrphansDropped ==
    /\ tpc = "ready" => ENABLED BuildTree
    /\ tpc = "built" =>
          \A i \in 1..Len(treeIn) :
              IsOrphan(treeIn, i) => CountInForest(treeOut.elems, treeIn[i].ID) = 0

C11_Witness ==
    /\ tpc = "built"
    /\ \E i \in 1..Len(treeIn) :
          /\ IsOrphan(treeIn, i)
          /\ CountInForest(treeOut.elems, treeIn[i].ID) = 0
    /\ Len(treeOut.elems) >= 1

\* every node of a forest, at every nesting depth
RECURSIVE NodesOf(_)
NodesOf(forest) ==
    IF forest = <<>> THEN {}
    ELSE {Head(forest)} \cup NodesOf(Head(forest).Children)
         \cup NodesOf(Tail(forest))

\* C12: for every node of the returned forest, at any depth, the node's
\* children are exactly the input records whose parent id is the node's id.
\* Stated here for the lists ordered parent before child (oldest first).
C12_ChildrenAreTheReplies ==
    (tpc = "built" /\ OldestFirst(treeIn)) =>
        \A n \in NodesOf(treeOut.elems) :
            /\ {n.Children[k].ID : k \in 1..Len(n.Children)}
                  = {treeIn[i].ID : i \in {j \in 1..Len(treeIn) :
                                              treeIn[j].ParentID = n.ID}}
            /\ \A k, l \in 1..Len(n.Children) :
                  k # l => n.Children[k].ID # n.Children[l].ID

\* the nodes of a sequence are in the relative order they have in the input
InInputOrder(cs, nodes) ==
    \A k, l \in 1..Len(nodes) :
        k < l => PosIn(cs, nodes[k].ID) < PosIn(cs, nodes[l].ID)

\* C13: the roots appear in their input order and, for every node, its
\* children appear in the relative order they had in the input.
C13_InputOrderKept ==
    tpc = "built" =>
        /\ InInputOrder(treeIn, treeOut.elems)
        /\ \A n \in NodesOf(treeOut.elems) : InInputOrder(treeIn, n.Children)

C13_Witness ==
    /\ tpc = "built"
    /\ \E k \in 1..Len(treeOut.elems) :
          /\ Len(treeOut.elems[k].Children) >= 2
          /\ InInputOrder(treeIn, treeOut.elems[k].Children)

\* C14: two calls in a row on the same list return structurally equal forests.
C14_SecondCallSameForest ==
    tpc = "rebuilt" => treeOut2 = treeOut

C14_Witness ==
    /\ tpc = "rebuilt"
    /\ treeOut2 = treeOut
    /\ \E k \in 1..Len(treeOut.elems) : Len(treeOut.elems[k].Children) >= 1
    /\ treeArr # treeIn

CallsOf(r) ==
    {calls[r].news[i] : i \in 1..Len(calls[r].news)}
        \cup {calls[r].comments[i] : i \in 1..Len(calls[r].comments)}

\* C16: for every non-empty inbound request_id, every backend call the
\* request triggers carries a request_id the backend reads as exactly the
\* inbound value. Stated here for the detail endpoint.
C16_InboundIdForwarded ==
    \A r \in Requests :
        (hpc[r] # "idle" /\ req[r].request_id # "") =>
            \A c \in CallsOf(r) : QueryGetRequestID(c.query) = req[r].request_id

\* C17: when the inbound request has no request_id the gateway generates one
\* non-empty token, and that same token is what the backend reads on every
\* backend call of the request.
C17_GeneratedIdOnEveryCall ==
    \A r \in Requests :
        (hpc[r] # "idle" /\ req[r].request_id = "") =>
            /\ requestID[r] \in GeneratedRequestIDs
            /\ requestID[r] # ""
            /\ \A c \in CallsOf(r) :
                  /\ c.request_id = requestID[r]
                  /\ QueryGetRequestID(c.query) = requestID[r]

C17_Witness ==
    \E r \in Requests :
        /\ req[r].request_id = "" /\ hpc[r] = "done"
        /\ requestID[r] \in GeneratedRequestIDs
        /\ Len(calls[r].news) = 1 /\ Len(calls[r].comments) = 1
        /\ QueryGetRequestID(calls[r].news[1].query) = requestID[r]
        /\ QueryGetRequestID(calls[r].comments[1].query) = requestID[r]

\* C18: the access-log line of a request carries the request id the handler
\* used for its downstream calls.
C18_LogCarriesRequestId ==
    \A r \in Requests :
        \A i \in 1..Len(logs[r]) : logs[r][i].request_id = requestID[r]

(***************************************************************************)
(* Properties of comment creation                                          *)
(***************************************************************************)

\* C19: a POST /comments whose body is not valid JSON, whose news_id is
\* missing or non-positive, or whose text is empty after trimming
\* whitespace is rejected with 400 by the gateway itself, with no call to
\* the comments backend.
C19_InvalidRejectedLocally ==
    (post.handled
        /\ (~post.body.valid \/ post.body.news_id <= 0
               \/ \A k \in 1..Len(post.body.text) : post.body.text[k] \in Whitespace))
    => (post.status = StatusBadRequest /\ post.backendCalls = <<>>)

\* C20: every stored comment with a non-null parent_id references a stored
\* comment whose news_id equals its own.
C20_ParentInSameNews ==
    \A i \in 1..Len(store) :
        store[i].ParentID # 0 =>
            \E j \in 1..Len(store) :
                /\ store[j].ID = store[i].ParentID
                /\ store[j].NewsID = store[i].NewsID

\* the comment ids in a store
StoredIds(st) == {st[i].ID : i \in 1..Len(st)}

\* the body passes the validation of both layers
WellFormed(body) ==
    /\ body.valid
    /\ body.news_id > 0
    /\ \E k \in 1..Len(body.text) : body.text[k] \notin Whitespace

\* C21: a POST /comments whose parent_id names no stored comment, and which
\* reaches the comments service, is answered 400 by the service, the gateway
\* relays the 400, and the stored comments are unchanged.
C21_MissingParentIs400 ==
    [][(post'.handled /\ ~post'.body.parent_id.nil
           /\ post'.body.parent_id.id \notin StoredIds(store)
           /\ post'.gwFault # "transport")
       => (post'.status = StatusBadRequest /\ store' = store
              /\ nextID' = nextID)]_vars

C21_Witness ==
    /\ post.handled
    /\ WellFormed(post.body)
    /\ ~post.body.parent_id.nil
    /\ post.body.parent_id.id \notin StoredIds(store)
    /\ store # <<>>
    /\ post.dbFault = "none" /\ post.gwFault = "none"
    /\ Len(post.backendCalls) = 1
    /\ post.status = StatusBadRequest

\* C22: a POST /comments with positive news_id, non-blank text and a
\* parent_id that is absent or names a stored comment, handled without a
\* transport or database failure, adds exactly one record whose id differs
\* from every id stored before, and the gateway answers 201 with that
\* record, which echoes the submitted news_id, parent_id and text.
C22_ValidCommentCreated ==
    [][(post'.handled /\ WellFormed(post'.body)
           /\ (post'.body.parent_id.nil
                  \/ post'.body.parent_id.id \in StoredIds(store))
           /\ post'.gwFault = "none" /\ post'.dbFault = "none")
       => (/\ Len(store') = Len(store) + 1
           /\ SubSeq(store', 1, Len(store)) = store
           /\ store'[Len(store')].ID \notin StoredIds(store)
           /\ post'.status = StatusCreated
           /\ post'.comment = store'[Len(store')]
           /\ post'.comment.NewsID = post'.body.news_id
           /\ post'.comment.Text = post'.body.text
           /\ post'.comment.ParentID =
                 (IF post'.body.parent_id.nil THEN 0
                  ELSE post'.body.parent_id.id))]_vars

C22_Witness ==
    /\ post.handled
    /\ post.status = StatusCreated
    /\ Len(store) = 2
    /\ post.comment = store[2]
    /\ post.comment.ParentID = store[1].ID
    /\ post.comment.Text = << " ", "o", "k" >>

\* C28: the comments service answers 400 "parent comment not found" only
\* when the supplied parent_id names no stored comment; a failure of the
\* parent lookup is reported as a 5xx.
C28_LookupFailureIs5xx ==
    (post.handled /\ WellFormed(post.body) /\ ~post.body.parent_id.nil
        /\ post.gwFault = "none"
        /\ post.status = StatusBadRequest)
    => post.body.parent_id.id \notin StoredIds(store)

(***************************************************************************)
(* Properties of GET /comments/{news_id}                                   *)
(***************************************************************************)

\* C23: for a news item without stored comments the comments service
\* answers with an empty array, never with null.
C23_NoCommentsIsEmptyArray ==
    (tpc # "ready" /\ treeIn = <<>>) => treeOut = EmptyComments

(***************************************************************************)
(* Properties of the detail request: stalls, isolation, channel, goroutines *)
(***************************************************************************)

\* C24: every detail request that has started its backend calls eventually
\* has a response, also when a backend never answers.
C24_StalledBackendAnswered ==
    \A r \in Requests : (hpc[r] = "range") ~> (resp[r] # <<>>)

\* the result types received by the handler or still in the channel
SentTypes(r) ==
    seen[r] \o [i \in 1..Len(resultChan[r]) |-> resultChan[r][i].type]

\* how many elements of a sequence belong to a set
CountIn(sq, S) == Cardinality({i \in 1..Len(sq) : sq[i] \in S})

\* C25: two detail requests handled concurrently do not interfere: the
\* backend calls of each carry its own id and its own request id, and each
\* response holds only the item and the comments of its own id.
C25_RequestsIsolated ==
    \A r \in Requests :
        Valid(r) =>
            /\ newsID[r] = Atoi(req[r].path).val
            /\ IF req[r].request_id = ""
               THEN requestID[r] \in GeneratedRequestIDs
               ELSE requestID[r] = req[r].request_id
            /\ \A c \in CallsOf(r) :
                  /\ c.id = newsID[r]
                  /\ c.request_id = requestID[r]
                  /\ QueryGetRequestID(c.query) = requestID[r]
            /\ \A i \in 1..Len(resp[r]) :
                  resp[r][i].status = StatusOK =>
                     /\ resp[r][i].news.ID = newsID[r]
                     /\ \A k \in 1..Len(resp[r][i].news.Comments.elems) :
                           resp[r][i].news.Comments.elems[k].NewsID = newsID[r]
            /\ Len(seen[r]) <= 2
            /\ CountIn(seen[r], {"[]Comment"}) <= 1

C25_Witness ==
    \E r1, r2 \in Requests :
        /\ hpc[r1] = "done" /\ hpc[r2] = "done"
        /\ newsID[r1] # newsID[r2]
        /\ requestID[r1] # requestID[r2]
        /\ Len(resp[r1]) = 1 /\ resp[r1][1].status = StatusOK
        /\ Len(resp[r2]) = 1 /\ resp[r2][1].status = StatusOK
        /\ Len(resp[r1][1].news.Comments.elems) = 1
        /\ Len(resp[r2][1].news.Comments.elems) = 1
        /\ seen[r1] = << "NewsFullDetailed", "[]Comment" >>
        /\ seen[r2] = << "[]Comment", "NewsFullDetailed" >>

\* C29: each fetcher goroutine sends exactly one value on every path, a
\* goroutine about to send always finds room in the channel, the channel is
\* closed once and only after both sends, and nothing is sent on a closed
\* channel, also when the handler has stopped reading.
C29_ChannelProtocol ==
    \A r \in Requests :
        /\ CountIn(SentTypes(r), {"nil", "NewsFullDetailed"}) =
              (IF npc[r] = "done" THEN 1 ELSE 0)
        /\ CountIn(SentTypes(r), {"[]Comment"}) =
              (IF cpc[r] = "done" THEN 1 ELSE 0)
        /\ (npc[r] = "send" \/ cpc[r] = "send") =>
              (Len(resultChan[r]) < ChanCap /\ ~chanClosed[r])
        /\ Len(resultChan[r]) <= ChanCap
        /\ chanClosed[r] => (npc[r] = "done" /\ cpc[r] = "done" /\ wpc[r] = "done")
        /\ wpc[r] = "done" => chanClosed[r]
        /\ ~panicked[r]

C29_Witness ==
    \E r \in Requests :
        /\ hpc[r] = "done" /\ hasError[r]
        /\ seen[r] = << "nil" >>
        /\ Len(resultChan[r]) = 1 /\ resultChan[r][1].type = "[]Comment"
        /\ chanClosed[r]

\* C30: when both backend calls return, the handler eventually has written
\* its response and returned, and the two fetchers and the closer have
\* terminated.
C30_AllTerminate ==
    \A r \in Requests :
        (hpc[r] = "range") ~>
            (/\ hpc[r] = "done" /\ resp[r] # <<>>
             /\ npc[r] = "done" /\ cpc[r] = "done" /\ wpc[r] = "done")

C30_Witness ==
    \E r \in Requests :
        /\ hpc[r] = "done" /\ hasError[r] /\ Len(resp[r]) = 1
        /\ seen[r] = << "nil" >>
        /\ npc[r] = "done" /\ cpc[r] = "done" /\ wpc[r] = "done"
        /\ commentsOutcome[r] = "list"
        /\ resultChan[r] # <<>>

(***************************************************************************)
(* Properties of the list passthroughs                                     *)
(***************************************************************************)

\* C26: a GET /news/filter or GET /news/latest makes exactly one call to
\* the news service; the call carries every parameter the endpoint knows
\* (six for filter, page and s for latest) that is non-empty in the inbound
\* request, with the same value, and no other filter parameter; a 200
\* answer is relayed as 200 with the same pagination.
C26_ListPassthrough ==
    (list.handled /\ list.method = "GET") =>
        /\ Len(list.calls) = 1
        /\ list.calls[1].endpoint = list.endpoint
        /\ \A k \in ParamKeys :
              IF k \in EndpointKeys(list.endpoint) /\ list.inbound[k] # ""
              THEN /\ k \in QueryKeys(list.calls[1].query)
                   /\ QueryGet(list.calls[1].query, k) = list.inbound[k]
              ELSE k \notin QueryKeys(list.calls[1].query)
        /\ QueryKeys(list.calls[1].query) \subseteq ParamKeys \cup {"request_id"}
        /\ list.outcome.kind = "ok" =>
              /\ list.status = StatusOK
              /\ list.body.pagination = list.outcome.body.pagination

C26_Witness ==
    /\ list.handled /\ list.method = "GET" /\ list.endpoint = "filter"
    /\ \A k \in ParamKeys : list.inbound[k] # ""
    /\ list.inbound["q"] = "a&b" /\ list.inbound["page"] = "2"
    /\ list.outcome.kind = "ok" /\ list.outcome.body.pagination.total = 31
    /\ list.status = StatusOK /\ Len(list.body.news) = 1
    /\ QueryGet(list.calls[1].query, "q") = "a&b"

(***************************************************************************)
(* Properties of the news service's pages                                  *)
(***************************************************************************)

\* the page a parameter stands for: 1 when it is absent, not an integer or
\* below 1; 0 stands for a page number of more than four digits
PageNumber(param) ==
    IF ~IsIntegerSyntax(param) THEN 1
    ELSE IF Len(param) > 4 THEN (IF Head(param) = "-" THEN 1 ELSE 0)
    ELSE IF Atoi(param).val < 1 THEN 1 ELSE Atoi(param).val

\* the items at positions (n-1)*15+1 .. n*15 of the list 1..total
PageSlice(n, total) ==
    LET first == (n - 1) * 15 + 1
        last == IF n * 15 < total THEN n * 15 ELSE total
    IN  [i \in 1..(IF last < first THEN 0 ELSE last - first + 1) |->
            first + i - 1]

\* C27: for a page parameter that is absent, not an integer or below 1 the
\* answer is page 1; the answer reports per_page 15, the total and
\* ceil(total / 15) pages; the items are those at positions (page-1)*15+1
\* to page*15, none for a page beyond the last. Checked for every page
\* number an int can hold.
C27_PageSlice ==
    (pg.pc = "done" /\ (IsIntegerSyntax(pg.param) => Atoi64(pg.param).ok)) =>
        LET n == PageNumber(pg.param) IN
        /\ pg.resp.status = StatusOK
        /\ pg.resp.pagination.per_page = 15
        /\ pg.resp.pagination.total = pg.total
        /\ pg.resp.pagination.total_pages = (pg.total + 14) \div 15
        /\ pg.resp.news = (IF n = 0 THEN <<>> ELSE PageSlice(n, pg.total))
        /\ Len(pg.resp.news) <= 15

====
